---- MODULE Spec2Model ----
(***************************************************************************)
(* Autoformer and Transformer forecasters of Merlion                       *)
(* (merlion/models/forecast/autoformer.py, transformer.py).                *)
(*                                                                         *)
(* The model follows the life of one forecaster module: the import guard   *)
(* around torch, the construction of the config, the construction of the   *)
(* torch model from the config, and one call of forward.  Tensors are      *)
(* sequences indexed (batch, time, channel), 1-based; their values live on  *)
(* an integer grid (a fixed-point reading of the float tensors: the         *)
(* divisions of the averages round down to the grid).  The encoder and the  *)
(* decoder are learned networks; what they return is drawn from a family    *)
(* of tensors of the shape the constructor arguments fix.                   *)
(***************************************************************************)
EXTENDS Integers, Sequences, FiniteSets, TLC

VARIABLES arch, pc, torch_import, raised, given, config, model,
          past, past_timestamp, future_timestamp, past_dec, past_timestamp_dec,
          seasonal_init, trend_init, parts, dec_out, result

vars == <<arch, pc, torch_import, raised, given, config, model,
          past, past_timestamp, future_timestamp, past_dec, past_timestamp_dec,
          seasonal_init, trend_init, parts, dec_out, result>>

cfgvars == <<given, config, model>>
callvars == <<past, past_timestamp, future_timestamp, past_dec, past_timestamp_dec,
              seasonal_init, trend_init, parts, dec_out, result>>

-----------------------------------------------------------------------------
(* Bounds of the model.                                                    *)

BatchSize == 2
MaxDim == 2
MaxPast == 3
MaxSteps == 2
MaxDecLen == 3

(* Python's None, for the optional integer arguments of the configs.       *)
None == -1

Dims == 1 .. MaxDim
OptDims == {None} \cup Dims
(* Values a window may hold at one time step, before the per-batch and     *)
(* per-channel offsets are added.                                          *)
Samples == {0, 7}
(* Seeds of the tensors a learned network may return.                      *)
Seeds == {0, 1}

-----------------------------------------------------------------------------
(* The import guard (both files, lines 23-32).                             *)

(* err: the two adjacent string literals of the hint (the backquotes of    *)
(* the source text are left out of the literals).                          *)
err ==
  << "Try installing Merlion with optional dependencies using pip install salesforce-merlion[deep-learning] or ",
     "pip install salesforce-merlion[all]" >>

NoExc == [type |-> "none", msg |-> <<>>]

(* What import torch may do: succeed, or raise.  ModuleNotFoundError is  *)
(* a subclass of ImportError; OSError (a shared library that fails to      *)
(* load) is not.                                                           *)
TorchOutcomes ==
  { [type |-> "ok", msg |-> <<>>],
    [type |-> "ModuleNotFoundError", msg |-> <<"No module named torch">>],
    [type |-> "ImportError", msg |-> <<"cannot import name nn from torch">>],
    [type |-> "OSError", msg |-> <<"libtorch.so: cannot open shared object file">>] }

(* isinstance(e, ImportError)                                              *)
IsImportError(e) == e.type \in {"ImportError", "ModuleNotFoundError"}

(* The guard as it would be with a bare raise: the exception as it came.   *)
ImportGuardReraise(e) == e

(* The exception the guard leaves: ImportError(str(e) + ". " + err) for an *)
(* ImportError, the exception itself for any other.                        *)
ImportGuard(e) ==
  IF IsImportError(e)
    THEN [type |-> "ImportError", msg |-> e.msg \o <<". ">> \o err]
    ELSE e

-----------------------------------------------------------------------------
(* Tensors.                                                                *)

(* A tensor axis as a sequence with its items worked out.                  *)
Seqd(f) == <<>> \o f

(* x.shape[0], x.shape[1], x.shape[2]                                      *)
Shape0(x) == Len(x)
Shape1(x) == IF Len(x) = 0 THEN 0 ELSE Len(x[1])
Shape2(x) == IF Shape1(x) = 0 THEN 0 ELSE Len(x[1][1])

(* Where a Python slice s[start:] of a sequence of n items begins (0-based):*)
(* a negative start counts from the end, and both ends clamp.               *)
PyStart(n, start) ==
  IF start < 0
    THEN (IF n + start < 0 THEN 0 ELSE n + start)
    ELSE (IF start > n THEN n ELSE start)

(* s[start:]                                                               *)
PySliceFrom(s, start) == SubSeq(s, PyStart(Len(s), start) + 1, Len(s))

(* x[:, start:, :] and x[:, start:]                                        *)
SliceTime(x, start) == Seqd([b \in 1 .. Len(x) |-> PySliceFrom(x[b], start)])

(* torch.cat([x, y], dim=1)                                                *)
CatTime(x, y) == Seqd([b \in 1 .. Len(x) |-> x[b] \o y[b]])

RECURSIVE SumSeq(_)
SumSeq(s) == IF Len(s) = 0 THEN 0 ELSE s[1] + SumSeq(Tail(s))

(* x + y and x - y, elementwise, on tensors of one shape                   *)
TensorAdd(x, y) ==
  Seqd([b \in 1 .. Len(x) |-> Seqd([t \in 1 .. Len(x[b]) |->
     Seqd([d \in 1 .. Len(x[b][t]) |-> x[b][t][d] + y[b][t][d]])])])

TensorSub(x, y) ==
  Seqd([b \in 1 .. Len(x) |-> Seqd([t \in 1 .. Len(x[b]) |->
     Seqd([d \in 1 .. Len(x[b][t]) |-> x[b][t][d] - y[b][t][d]])])])

(* The mean over the steps of one series, channel by channel.              *)
MeanSteps(s, D) ==
  Seqd([d \in 1 .. D |-> SumSeq(Seqd([u \in 1 .. Len(s) |-> s[u][d]])) \div Len(s)])

Repeat(v, n) == Seqd([i \in 1 .. n |-> v])

(* torch.mean(past, dim=1).unsqueeze(1).repeat(1, n, 1)                    *)
MeanRepeat(x, n) ==
  Seqd([b \in 1 .. Len(x) |-> Repeat(MeanSteps(x[b], Shape2(x)), n)])

(* torch.zeros([B, n, D])                                                  *)
Zeros(B, n, D) == Repeat(Repeat(Repeat(0, D), n), B)

-----------------------------------------------------------------------------
(* Series decomposition (SeriesDecomposeBlock of nn_modules): the trend is *)
(* the moving average over a window of kernel_size steps, stride 1, of the *)
(* series padded with copies of its first and last step; the seasonal part *)
(* is the residual.                                                        *)

(* The windows of the moving average the configs are given: odd, as the    *)
(* default 25 is.                                                          *)
Kernels == {1, 3}

Padded(s, k) ==
  Repeat(s[1], (k - 1) \div 2) \o s \o Repeat(s[Len(s)], (k - 1) \div 2)

(* The averages of the windows of k steps of one padded series.            *)
AvgPool(pad, k, D) ==
  Seqd([t \in 1 .. Len(pad) - k + 1 |->
     Seqd([d \in 1 .. D |-> SumSeq(Seqd([u \in 1 .. k |-> pad[t + u - 1][d]])) \div k])])

MovingAvg(x, k) ==
  Seqd([b \in 1 .. Len(x) |-> AvgPool(Padded(x[b], k), k, Shape2(x))])

(* returns <<res, moving_mean>>                                            *)
SeriesDecomposeBlock(x, k) ==
  LET moving_mean == MovingAvg(x, k)
  IN  <<TensorSub(x, moving_mean), moving_mean>>

-----------------------------------------------------------------------------
(* Configs.                                                                *)

(* The arguments a config is built from.  The label length runs from 0 to *)
(* one step more than the history holds.                                   *)
ConfigArgs ==
  { a \in [ n_past : 1 .. MaxPast,
            max_forecast_steps : 1 .. MaxSteps,
            dim : OptDims,
            start_token_len : 0 .. MaxPast + 1,
            moving_avg : Kernels,
            enc_in : OptDims,
            dec_in : OptDims,
            target_seq_index : {None, 0} ] :
      a.start_token_len <= a.n_past + 1 }

(* AutoformerConfig.__init__: the initializer decorator stores every       *)
(* argument as an attribute; c_out is not set yet.                         *)
AutoformerConfig(a) ==
  [ n_past |-> a.n_past, max_forecast_steps |-> a.max_forecast_steps,
    dim |-> a.dim, start_token_len |-> a.start_token_len,
    moving_avg |-> a.moving_avg, enc_in |-> a.enc_in, dec_in |-> a.dec_in,
    target_seq_index |-> a.target_seq_index, c_out |-> None ]

(* TransformerConfig.__init__: enc_in falls back to dim, dec_in to enc_in  *)
(* or, with a target sequence, to 1.                                       *)
TransformerEncIn(a) == IF a.enc_in = None THEN a.dim ELSE a.enc_in

TransformerDecIn(a) ==
  IF a.dec_in = None
    THEN (IF a.target_seq_index = None THEN TransformerEncIn(a) ELSE 1)
    ELSE a.dec_in

TransformerConfig(a) ==
  [ n_past |-> a.n_past, max_forecast_steps |-> a.max_forecast_steps,
    dim |-> a.dim, start_token_len |-> a.start_token_len,
    moving_avg |-> a.moving_avg, enc_in |-> TransformerEncIn(a),
    dec_in |-> TransformerDecIn(a),
    target_seq_index |-> a.target_seq_index, c_out |-> None ]

-----------------------------------------------------------------------------
(* AutoformerModel.__init__                                                *)

(* enc_in as it would be if dim always won over a supplied enc_in.         *)
AutoformerEncInOverride(c) == IF c.dim # None THEN c.dim ELSE c.enc_in

(* lines 109-111: enc_in and dec_in after the resolution                   *)
AutoformerEncIn(c) ==
  IF c.dim # None
    THEN (IF c.enc_in = None THEN c.dim ELSE c.enc_in)
    ELSE c.enc_in

AutoformerDecIn(c) ==
  IF c.dim # None
    THEN (IF c.dec_in = None THEN AutoformerEncIn(c) ELSE c.dec_in)
    ELSE c.dec_in

(* The resolution as it would be if c_out were always the single target    *)
(* channel.                                                                *)
AutoformerResolveTarget(c) ==
  [c EXCEPT !.enc_in = AutoformerEncIn(c), !.dec_in = AutoformerDecIn(c),
            !.c_out = 1]

(* The config after lines 109-114 (c_out is assigned only without a target *)
(* sequence: the other branch names an unbound variable and raises).       *)
AutoformerResolve(c) ==
  LET c1 == [c EXCEPT !.enc_in = AutoformerEncIn(c), !.dec_in = AutoformerDecIn(c)]
  IN  IF c1.target_seq_index = None
        THEN [c1 EXCEPT !.c_out = c1.enc_in]
        ELSE c1

NoModel ==
  [ n_past |-> None, start_token_len |-> None, max_forecast_steps |-> None,
    kernel_size |-> None, enc_embedding |-> None, dec_embedding |-> None,
    projection |-> None, dim |-> None ]

(* The modules the constructor builds, by the widths it gives them: the    *)
(* input width of each embedding and the output width of the decoder's     *)
(* final projection.                                                       *)
AutoformerModules(c) ==
  [ n_past |-> c.n_past, start_token_len |-> c.start_token_len,
    max_forecast_steps |-> c.max_forecast_steps,
    kernel_size |-> c.moving_avg,
    enc_embedding |-> c.enc_in, dec_embedding |-> c.dec_in,
    projection |-> c.c_out, dim |-> None ]

(* TransformerModel.__init__: config.dim is overwritten with enc_in and    *)
(* the projection is built to that width.                                  *)
TransformerResolve(c) == [c EXCEPT !.dim = c.enc_in]

TransformerModules(c) ==
  [ n_past |-> c.n_past, start_token_len |-> c.start_token_len,
    max_forecast_steps |-> c.max_forecast_steps,
    kernel_size |-> None,
    enc_embedding |-> c.enc_in, dec_embedding |-> c.dec_in,
    projection |-> c.dim, dim |-> c.dim ]

(* A layer built with a width of None raises TypeError.                    *)
WidthsGiven(m) ==
  m.enc_embedding # None /\ m.dec_embedding # None /\ m.projection # None

-----------------------------------------------------------------------------
(* Inputs of forward.                                                      *)

(* Windows of the history: BatchSize series of L steps and D channels; the *)
(* offsets keep the entries of different batches and channels apart.       *)
Window(base, D) ==
  Seqd([b \in 1 .. BatchSize |-> Seqd([t \in 1 .. Len(base) |->
     Seqd([d \in 1 .. D |-> base[t] + 3 * (d - 1) + 20 * (b - 1)])])])

Bases(L) == [1 .. L -> Samples]

(* Time stamps first+1 .. first+n, one row for each series.                *)
Stamps(first, n) ==
  Seqd([b \in 1 .. BatchSize |-> Seqd([t \in 1 .. n |-> first + t])])

(* What a learned network returns: some tensor of the shape its layers     *)
(* fix, told apart by its seed.                                            *)
Learned(seed, L, D) ==
  Seqd([b \in 1 .. BatchSize |-> Seqd([t \in 1 .. L |->
     Seqd([d \in 1 .. D |-> seed + 2 * (d - 1) + 10 * (t - 1) + 100 * (b - 1)])])])

-----------------------------------------------------------------------------
(* AutoformerModel.forward                                                 *)

(* line 195-197: the label part of the past stamps, then the future stamps *)
DecoderStamps(m, pts, fts) ==
  CatTime(SliceTime(pts, Shape1(pts) - m.start_token_len), fts)

(* The trend initialisation as it would be with the label taken from the   *)
(* head of the window instead of its tail.                                 *)
TrendInitHead(m, trend, mean) ==
  CatTime(Seqd([b \in 1 .. Len(trend) |->
            SubSeq(trend[b], 1,
                   Len(trend[b]) - PyStart(Len(trend[b]), Len(trend[b]) - m.start_token_len))]),
          mean)

(* line 206                                                                *)
TrendInit(m, trend, mean) ==
  CatTime(SliceTime(trend, Shape1(trend) - m.start_token_len), mean)

(* lines 207-209                                                           *)
SeasonalInit(m, seasonal, zeros) ==
  CatTime(SliceTime(seasonal, Shape1(seasonal) - m.start_token_len), zeros)

(* An embedding adds the projection of the values (input width c_in) to    *)
(* the projection of the time stamps: the widths and the lengths must fit. *)
EmbeddingFits(c_in, x, stamps) ==
  Shape2(x) = c_in /\ Shape1(x) = Shape1(stamps)

(* Whether the tensors of one call pass through the embeddings and the    *)
(* decoder of the model: the past window through enc_embedding, the        *)
(* seasonal initialisation through dec_embedding, the trend initialisation *)
(* into the decoder's sum with the c_out-wide residual trends.             *)
AutoformerFits(m, p, pts, fts) ==
  LET decomp == SeriesDecomposeBlock(p, m.kernel_size)
      ti == TrendInit(m, decomp[2], MeanRepeat(p, m.max_forecast_steps))
      si == SeasonalInit(m, decomp[1],
                         Zeros(Shape0(p), m.max_forecast_steps, Shape2(p)))
  IN  /\ EmbeddingFits(m.enc_embedding, p, pts)
      /\ EmbeddingFits(m.dec_embedding, si, DecoderStamps(m, pts, fts))
      /\ Shape2(ti) = m.projection

TransformerFits(m, p, pts, pd, ptd) ==
  /\ EmbeddingFits(m.enc_embedding, p, pts)
  /\ EmbeddingFits(m.dec_embedding, pd, ptd)

(* Decoder of enc_dec_autoformer: the seasonal part is the projection of   *)
(* the hidden state to c_out channels, the trend part is the initial trend *)
(* plus the residual trends of the layers, c_out channels each.            *)
AutoformerDecoder(m, trend, seed) ==
  << Learned(seed, Shape1(trend), m.projection),
     TensorAdd(trend, Learned(seed + 1, Shape1(trend), m.projection)) >>

(* The slice as it would be without the minus sign.                        *)
ForecastSliceHead(m, x) == SliceTime(x, m.max_forecast_steps)

(* lines 165 and 222: dec_out[:, -max_forecast_steps:, :]                  *)
ForecastSlice(m, x) == SliceTime(x, 0 - m.max_forecast_steps)

-----------------------------------------------------------------------------
(* The state machine.                                                      *)

NoArgs ==
  [ n_past |-> None, max_forecast_steps |-> None, dim |-> None,
    start_token_len |-> None, moving_avg |-> None, enc_in |-> None,
    dec_in |-> None, target_seq_index |-> None ]

NoConfig ==
  [ n_past |-> None, max_forecast_steps |-> None, dim |-> None,
    start_token_len |-> None, moving_avg |-> None, enc_in |-> None,
    dec_in |-> None, target_seq_index |-> None, c_out |-> None ]

Init ==
  /\ arch = "none"
  /\ pc = "start"
  /\ torch_import = NoExc
  /\ raised = NoExc
  /\ given = NoArgs
  /\ config = NoConfig
  /\ model = NoModel
  /\ past = <<>> /\ past_timestamp = <<>> /\ future_timestamp = <<>>
  /\ past_dec = <<>> /\ past_timestamp_dec = <<>>
  /\ seasonal_init = <<>> /\ trend_init = <<>> /\ parts = <<>>
  /\ dec_out = <<>> /\ result = <<>>

(* Loading a module: the try block around the import of torch.             *)
LoadModule(a) ==
  /\ pc = "start"
  /\ arch' = a
  /\ \E e \in TorchOutcomes :
       /\ torch_import' = e
       /\ IF e.type = "ok"
            THEN pc' = "loaded" /\ raised' = NoExc
            ELSE pc' = "import_error" /\ raised' = ImportGuard(e)
  /\ UNCHANGED <<cfgvars, callvars>>

LoadAutoformer == LoadModule("autoformer")

LoadTransformer == LoadModule("transformer")

AutoformerConfigInit ==
  /\ arch = "autoformer" /\ pc = "loaded"
  /\ \E a \in ConfigArgs :
       /\ given' = a
       /\ config' = AutoformerConfig(a)
  /\ pc' = "configured"
  /\ UNCHANGED <<arch, torch_import, raised, model, callvars>>

(* moving_avg and start_token_len are stored and never read by the         *)
(* Transformer: they keep their defaults here.                             *)
TransformerConfigInit ==
  /\ arch = "transformer" /\ pc = "loaded"
  /\ \E a \in ConfigArgs :
       /\ a.moving_avg = 1 /\ a.start_token_len = 0
       /\ given' = a
       /\ config' = TransformerConfig(a)
  /\ pc' = "configured"
  /\ UNCHANGED <<arch, torch_import, raised, model, callvars>>

AutoformerModelInit ==
  /\ arch = "autoformer" /\ pc = "configured"
  /\ config' = AutoformerResolve(config)
  /\ IF config.target_seq_index # None
       THEN /\ pc' = "init_error"
            /\ raised' = [type |-> "NameError", msg |-> <<"name copnfig is not defined">>]
            /\ model' = model
       ELSE IF ~WidthsGiven(AutoformerModules(config'))
         THEN /\ pc' = "init_error"
              /\ raised' = [type |-> "TypeError", msg |-> <<>>]
              /\ model' = model
         ELSE /\ pc' = "built"
              /\ raised' = raised
              /\ model' = AutoformerModules(config')
  /\ UNCHANGED <<arch, torch_import, given, callvars>>

TransformerModelInit ==
  /\ arch = "transformer" /\ pc = "configured"
  /\ config' = TransformerResolve(config)
  /\ IF ~WidthsGiven(TransformerModules(config'))
       THEN /\ pc' = "init_error"
            /\ raised' = [type |-> "TypeError", msg |-> <<>>]
            /\ model' = model
       ELSE /\ pc' = "built"
            /\ raised' = raised
            /\ model' = TransformerModules(config')
  /\ UNCHANGED <<arch, torch_import, given, callvars>>

ShapeError == [type |-> "RuntimeError", msg |-> <<"shape mismatch">>]

(* The widths of the windows the forecaster passes in: config.dim is the   *)
(* dimension of the input data when it was given.                          *)
DataDims == IF given.dim = None THEN Dims ELSE {given.dim}

(* A call that raises leaves nothing behind but the exception.             *)
AutoformerForward ==
  /\ arch = "autoformer" /\ pc = "built"
  /\ \E D \in DataDims, F \in 1 .. MaxSteps, base \in Bases(model.n_past) :
       LET p == Window(base, D)
           pts == Stamps(0, model.n_past)
           fts == Stamps(model.n_past, F)
           mean == MeanRepeat(p, model.max_forecast_steps)
           zeros == Zeros(Shape0(p), model.max_forecast_steps, Shape2(p))
           decomp == SeriesDecomposeBlock(p, model.kernel_size)
           ti == TrendInit(model, decomp[2], mean)
           si == SeasonalInit(model, decomp[1], zeros)
       IN  IF AutoformerFits(model, p, pts, fts)
             THEN \E seed \in Seeds :
                  LET out == AutoformerDecoder(model, ti, seed)
                  IN  /\ past' = p /\ past_timestamp' = pts
                      /\ future_timestamp' = fts
                      /\ seasonal_init' = si /\ trend_init' = ti
                      /\ parts' = out
                      /\ dec_out' = TensorAdd(out[2], out[1])
                      /\ result' = ForecastSlice(model, dec_out')
                      /\ pc' = "forwarded"
                      /\ raised' = raised
             ELSE /\ pc' = "shape_error"
                  /\ raised' = ShapeError
                  /\ UNCHANGED <<past, past_timestamp, future_timestamp,
                                 seasonal_init, trend_init, parts, dec_out, result>>
  /\ UNCHANGED <<arch, torch_import, cfgvars, past_dec, past_timestamp_dec>>

(* The encoder is learned and the past window reaches nothing else: one    *)
(* window of each shape stands for them all.                               *)
TransformerForward ==
  /\ arch = "transformer" /\ pc = "built"
  /\ \E D \in DataDims, Dd \in Dims, Ld \in 1 .. MaxDecLen, seed \in Seeds :
       LET p == Window(Seqd([t \in 1 .. model.n_past |-> t]), D)
           pts == Stamps(0, model.n_past)
           pd == Learned(seed + 5, Ld, Dd)
           ptd == Stamps(model.n_past - Ld + model.max_forecast_steps, Ld)
       IN  IF TransformerFits(model, p, pts, pd, ptd)
             THEN /\ past' = p /\ past_timestamp' = pts
                  /\ past_dec' = pd /\ past_timestamp_dec' = ptd
                  /\ dec_out' = Learned(seed, Ld, model.projection)
                  /\ result' = ForecastSlice(model, dec_out')
                  /\ pc' = "forwarded"
                  /\ raised' = raised
             ELSE /\ pc' = "shape_error"
                  /\ raised' = ShapeError
                  /\ UNCHANGED <<past, past_timestamp, past_dec,
                                 past_timestamp_dec, dec_out, result>>
  /\ UNCHANGED <<arch, torch_import, cfgvars, future_timestamp,
                 seasonal_init, trend_init, parts>>

Next ==
  \/ LoadAutoformer
  \/ LoadTransformer
  \/ AutoformerConfigInit
  \/ TransformerConfigInit
  \/ AutoformerModelInit
  \/ TransformerModelInit
  \/ AutoformerForward
  \/ TransformerForward

Spec == Init /\ [][Next]_vars

-----------------------------------------------------------------------------
(* Properties.                                                             *)

AfterInit == {"built", "init_error", "forwarded", "shape_error"}
Built == {"built", "forwarded", "shape_error"}

(* C1: forward returns exactly the last max_forecast_steps time steps of   *)
(* the decoder output (for the Autoformer, of trend_part + seasonal_part), *)
(* batch and channel axes untouched: for 1 <= H <= decoder length, the     *)
(* result has H steps and its step i is decoder step length - H + i.       *)
C1_ForecastIsTail ==
  LET H == model.max_forecast_steps
      L == Shape1(dec_out)
  IN  (pc = "forwarded" /\ 1 <= H /\ H <= L) =>
        /\ Shape0(result) = Shape0(dec_out)
        /\ \A b \in 1 .. Shape0(dec_out) :
             /\ Len(result[b]) = H
             /\ \A i \in 1 .. H :
                  /\ result[b][i] = dec_out[b][L - H + i]
                  /\ arch = "autoformer" =>
                       /\ Len(result[b][i]) = Len(parts[1][b][L - H + i])
                       /\ \A d \in 1 .. Len(result[b][i]) :
                            result[b][i][d] =
                              parts[2][b][L - H + i][d] + parts[1][b][L - H + i][d]

(* A call of each model whose decoder output is longer than the horizon.   *)
C1_Witness ==
  /\ pc = "forwarded" /\ arch = "transformer"
  /\ model.max_forecast_steps = 2 /\ Shape1(dec_out) = 3
  /\ Shape2(dec_out) = 2 /\ Shape1(result) = 2

(* C2: an Autoformer built from dim = D with enc_in, dec_in and            *)
(* target_seq_index unset resolves enc_in = dec_in = c_out = D; a past     *)
(* window (B, n_past, D) with max_forecast_steps future stamps passes      *)
(* through the model and the prediction has shape (B, max_forecast_steps,  *)
(* D); the widths of seasonal_init and trend_init are dec_in and c_out.    *)
C2_ShapeContract ==
  (/\ arch = "autoformer" /\ pc \in AfterInit
   /\ given.dim # None /\ given.enc_in = None /\ given.dec_in = None
   /\ given.target_seq_index = None) =>
    /\ pc \in Built
    /\ config.enc_in = given.dim /\ config.dec_in = given.dim
    /\ config.c_out = given.dim
    /\ pc = "built" =>
         \A base \in Bases(model.n_past) :
           AutoformerFits(model, Window(base, given.dim),
                          Stamps(0, model.n_past),
                          Stamps(model.n_past, model.max_forecast_steps))
    /\ pc = "forwarded" =>
         /\ Shape2(past) = given.dim
         /\ Shape1(future_timestamp) = model.max_forecast_steps
         /\ Shape2(seasonal_init) = config.dec_in
         /\ Shape2(trend_init) = config.c_out
         /\ Shape0(result) = Shape0(past)
         /\ \A b \in 1 .. Shape0(result) :
              /\ Len(result[b]) = model.max_forecast_steps
              /\ \A i \in 1 .. Len(result[b]) : Len(result[b][i]) = given.dim

C2_Witness ==
  /\ arch = "autoformer" /\ pc = "forwarded"
  /\ given.dim = 2 /\ given.enc_in = None /\ given.dec_in = None
  /\ given.target_seq_index = None
  /\ Shape2(result) = 2 /\ Shape1(result) = model.max_forecast_steps

(* C3: in the construction of the Autoformer, an unset enc_in becomes dim  *)
(* when dim is set; a supplied enc_in is left as it is.                    *)
C3_EncInResolved ==
  (arch = "autoformer" /\ pc \in AfterInit) =>
    /\ (given.enc_in = None /\ given.dim # None) => config.enc_in = given.dim
    /\ given.enc_in # None => config.enc_in = given.enc_in

C3_Witness ==
  /\ arch = "autoformer" /\ pc = "built"
  /\ given.enc_in = None /\ given.dim = 2 /\ config.enc_in = 2

(* C4: in the construction of the Autoformer, an unset dec_in becomes dim, *)
(* whatever enc_in was supplied.                                           *)
C4_DecInIsDim ==
  (arch = "autoformer" /\ pc \in AfterInit /\ given.dec_in = None) =>
    config.dec_in = config.dim

C6_AnyFailureIsImportError ==
  /\ pc = "loaded" => (torch_import.type = "ok" /\ raised = NoExc)
  /\ pc = "import_error" =>
       /\ torch_import.type # "ok"
       /\ raised.type = "ImportError"
       /\ raised.msg = torch_import.msg \o <<". ">> \o err
  /\ (pc # "start" /\ torch_import.type = "ok") => pc # "import_error"
  /\ (pc # "start" /\ torch_import.type # "ok") => pc = "import_error"

(* C6, amended: when the import of torch raises an ImportError (or its     *)
(* subclass ModuleNotFoundError), loading ends in an ImportError whose     *)
(* message is the original message, ". " and the hint; any other exception *)
(* of the import leaves the module unloaded and propagates as it is; when  *)
(* torch imports, the block raises nothing.                                *)
C6_ImportErrorGetsHint ==
  /\ pc = "loaded" => (torch_import.type = "ok" /\ raised = NoExc)
  /\ pc = "import_error" =>
       /\ torch_import.type # "ok"
       /\ IsImportError(torch_import) =>
            /\ raised.type = "ImportError"
            /\ raised.msg = torch_import.msg \o <<". ">> \o err
       /\ ~IsImportError(torch_import) => raised = torch_import
  /\ (pc # "start" /\ torch_import.type = "ok") => pc # "import_error"
  /\ (pc # "start" /\ torch_import.type # "ok") => pc = "import_error"

C6_Witness ==
  /\ pc = "import_error"
  /\ torch_import.type = "ModuleNotFoundError"
  /\ raised.type = "ImportError"
  /\ Len(raised.msg) = Len(torch_import.msg) + 1 + Len(err)

(* C7: for the Transformer, the decoder dimension TransformerConfig picks  *)
(* for an unset dec_in (enc_in without a target sequence, 1 with one) is   *)
(* the output dimension of the model: the width of the decoder's final     *)
(* projection equals config.dec_in.                                        *)
C7_ProjectionIsDecIn ==
  (arch = "transformer" /\ pc \in Built /\ given.dec_in = None) =>
    /\ model.projection = config.dec_in
    /\ pc = "forwarded" => Shape2(dec_out) = config.dec_in

====
